---- MODULE Spec2Model ----
(***************************************************************************)
(* Model of src/youtube.py: the two ingestion flows of class Youtube       *)
(* (collect_video_snippets, collect_channel_stats) as run by main(), over  *)
(* an abstract Athena catalog, S3 bucket and YouTube Data API.             *)
(***************************************************************************)
EXTENDS Integers, Sequences, FiniteSets, TLC

\* ------------------------------------------------------------------ bounds
NumCreds == 2     \* len(config['youtube']): size of the credential list
NumVideos == 2    \* distinct video ids the crawl may reference
MaxUrls == 2      \* rows of table validated_url that link to youtube
MaxRuns == 2      \* invocations of main()
MaxDate == 2      \* UTC days the model spans
MaxLen == 4       \* characters of a publishedAt value the API may give

VARIABLES
    validated_url,  \* upstream table: a bag of rows [host, v], kept in a canonical order
    storage,        \* S3 bucket s3_data: the objects [key, body], one per key
    tables,         \* Athena catalog: names of the data tables that exist
    partitions,     \* partitions registered for youtube_channel_stats
    today,          \* datetime.utcnow() date
    runs,           \* invocations of main() started so far
    pc,             \* position of the running process
    work,           \* rows of the downloaded csv (video_ids.csv / channel_ids.csv)
    num_videos,     \* local of collect_video_snippets
    num_channels,   \* local of collect_channel_stats
    current_key,    \* local of the running flow
    youtube,        \* index of the developer key the API client was built with
    batch,          \* lines written to output_json
    calls,          \* history: API calls of the latest iteration of the fetch loop,
                    \* kept until the flow goes on from the loop
    fetched,        \* history: ids of the running flow whose call has answered
    uploads,        \* history: upload_file calls of the run that succeeded
    stmts,          \* history: DDL statements issued by the run
    err,            \* exception leaving main(), NoError if none
    fatalAt,        \* pc at which the exception was raised
    first_key_403,  \* history: the first developer key answered 403 to the
                    \* video-snippet flow of this run
    tables_at_start,\* history: the catalog when the run started
    item,           \* an entity of response['items'] as the API gave it
    line            \* the value passed to json.dumps for that entity

vars == <<validated_url, storage, tables, partitions, today, runs, pc, work,
          num_videos, num_channels, current_key, youtube, batch, calls,
          fetched, uploads, stmts, err, fatalAt, first_key_403, tables_at_start,
          item, line>>

\* ------------------------------------------------------------- data values
VideoIds == 1..NumVideos
\* the channel that owns a video (snippet.channelId of the API's answer)
ChannelOf(v) == (v \div 2) + 1

YoutubeHost == "www.youtube.com"
OtherHost == "vimeo.com"
\* the rows the crawl may add, and a row of another host that is always there
YoutubeRows == [host : {YoutubeHost}, v : VideoIds]
OtherRow == [host |-> OtherHost, v |-> 1]

VIDEO == "youtube_video_snippet"
CHANNEL == "youtube_channel_stats"

Range(s) == {s[i] : i \in 1..Len(s)}

\* ------------------------------------------------------------- exceptions
NoError == [type |-> "none"]
\* googleapiclient.errors.HttpError: status of the answer, and whether the
\* text str(e) (status, request uri, reason) contains the characters 403
HttpError(status, text403) == [type |-> "HttpError", status |-> status, text403 |-> text403]
TypeError == [type |-> "TypeError"]
UploadError == [type |-> "S3UploadFailedError"]
AthenaError == [type |-> "AthenaError"]

HttpErrors == {HttpError(403, TRUE), HttpError(500, FALSE), HttpError(500, TRUE)}

\* An answer of the API to videos().list / channels().list for one id:
\* response.get('items', []) holds zero or one entity, or the call raises.
VideoItem(v) == [id |-> v, channelId |-> ChannelOf(v)]
ChannelItem(c) == [id |-> c]
VideoResponses(v) == {<<>>, <<VideoItem(v)>>}
ChannelResponses(c) == {<<>>, <<ChannelItem(c)>>}

\* ------------------------------------------------------------ S3 and Athena
\* faulty variant: an upload to a key in use adds a second object
PutObjectKeep(bucket, key, body) == bucket \cup {[key |-> key, body |-> body]}

\* faulty variant: the upload returns without storing the object
PutObjectLost(bucket, key, body) == bucket

\* s3.Bucket(...).upload_file: the object at key is created or replaced
PutObject(bucket, key, body) ==
    {o \in bucket : o.key # key} \cup {[key |-> key, body |-> body]}

ObjectsOf(flow) == {o \in storage : o.key.flow = flow}

\* rows Athena reads from LOCATION s3://{s3_bucket}/youtube_video_snippet/
VideoTableRows == UNION {Range(o.body) : o \in ObjectsOf(VIDEO)}
\* rows Athena reads from the registered partitions of youtube_channel_stats
ChannelTableRows ==
    UNION {Range(o.body) : o \in {x \in ObjectsOf(CHANNEL) : x.key.date \in partitions}}

\* select id from youtube_video_snippet
VideoTableIds == {r.id : r \in VideoTableRows}
\* select id from youtube_channel_stats
ChannelTableIds == {r.id : r \in ChannelTableRows}

\* athena.table_exists(name)
table_exists(name) == name \in tables

\* url_extract_parameter(validated_url, 'v') of the rows
\* where url_extract_host(validated_url) = 'www.youtube.com'
YoutubeVideoIds ==
    LET sel == SelectSeq(validated_url, LAMBDA r : r.host = YoutubeHost)
    IN  [i \in 1..Len(sel) |-> sel[i].v]

\* "select distinct": every value once (first occurrence kept)
RECURSIVE Distinct(_)
Distinct(s) ==
    IF s = <<>> THEN <<>>
    ELSE LET init == Distinct(SubSeq(s, 1, Len(s) - 1))
             last == s[Len(s)]
         IN  IF last \in Range(init) THEN init ELSE Append(init, last)

\* faulty variant: every identifier is taken as processed once the table exists
NotProcessedNone(s) == <<>>

\* faulty variant: the query is not extended with the "not in" condition
NotProcessedAll(s) == s

\* TABLE_YOUTUBE_VIDEO_SNIPPET_EXISTS: and ... not in (select id from youtube_video_snippet)
NotProcessed(s) == SelectSeq(s, LAMBDA v : v \notin VideoTableIds)

\* the query collect_video_snippets builds: SELECT_YOUTUBE_VIDEOS, extended
\* with TABLE_YOUTUBE_VIDEO_SNIPPET_EXISTS when the table exists
VideoQuery ==
    IF table_exists(VIDEO) THEN Distinct(NotProcessed(YoutubeVideoIds))
    ELSE Distinct(YoutubeVideoIds)

\* "order by": ascending
OrderBy(S) ==
    CHOOSE s \in [1..Cardinality(S) -> S] :
        \A i, j \in 1..Cardinality(S) : i < j => s[i] < s[j]

\* variant: the channels already in youtube_channel_stats are left out
ChannelQueryNew == OrderBy({r.channelId : r \in VideoTableRows} \ ChannelTableIds)

\* SELECT_DISTINCT_CHANNEL: select distinct snippet.channelId
\* from youtube_video_snippet order by channel_id
ChannelQuery == OrderBy({r.channelId : r \in VideoTableRows})

\* --------------------------------------------------------------- the flows
\* line 158: the test "403" in str(e)
IsQuotaError(e) == e.text403

\* faulty variant: a flow goes on with the index the flow before it ended with
InitialKeyKept(k) == k

\* lines 137 and 202: current_key = 0, whatever the index k was before
InitialKey(k) == 0

\* line 162: current_key = current_key + 1
NextKey(k) == k + 1

\* faulty variant: the client is always built with the first developer key
BuildClientFirst(k) == 0

\* lines 138-142, 166-171, 203-207, 232-237: the client is built with
\* self.credentials[k]['developer_key']
BuildClient(k) == k

\* faulty variant: the end of the pool is never seen
VideoPoolTestNever(k) == [error |-> NoError, value |-> FALSE]

\* line 163: current_key >= len(self.credentials)
\* self.credentials is the list config['youtube'] (it is indexed by current_key)
VideoPoolTest(k) == [error |-> NoError, value |-> k >= NumCreds]

\* line 229: current_key >= len(self.credentials['youtube'])
\* a list indexed by a str: Python raises TypeError before len() is applied
ChannelPoolTest(k) == [error |-> TypeError, value |-> FALSE]

\* faulty variant: a line is written for a response without items
VideoRecordsNull(items) ==
    IF Len(items) = 0 THEN <<[id |-> 0, channelId |-> 0]>>
    ELSE [i \in 1..Len(items) |-> [id |-> items[i].id, channelId |-> items[i].channelId]]

\* lines 174-177: the lines written for a response
\* (the values of publishedAt and retrieved_at are left out of the record)
VideoRecords(items) ==
    [i \in 1..Len(items) |-> [id |-> items[i].id, channelId |-> items[i].channelId]]

\* lines 240-242
ChannelRecords(items) ==
    [i \in 1..Len(items) |-> [id |-> items[i].id]]

\* line 183: "youtube_video_snippet/{}-{}.json.bz2".format(date, num_videos)
VideoKey(date, n) == [flow |-> VIDEO, date |-> date, count |-> n]

\* line 248: "youtube_channel_stats/creation_date={}/{}.json.bz2".format(date, num_channels)
ChannelKey(date, n) == [flow |-> CHANNEL, date |-> date, count |-> n]

\* faulty variant: an exception of the fetch loop of the video flow is swallowed
\* and the flow goes on to the upload
AfterRaiseSwallowed(at) == IF at = "v_fetch" THEN "v_upload" ELSE "fatal"

\* faulty variant: the video-snippet flow goes on to its DDL without its upload
AfterRaiseNoUpload(at) == IF at = "v_upload" THEN "v_schema" ELSE "fatal"

\* faulty variant: a failure of the upload of the channel-stats flow is ignored
\* and the flow goes on to its DDL
AfterRaiseUploadIgnored(at) == IF at = "c_upload" THEN "c_drop" ELSE "fatal"

\* lines 270-278: main() has try/finally and no except: an exception raised at
\* position at leaves main and the process ends
AfterRaise(at) == "fatal"

\* line 188: the DDL of the video-snippet flow, in order
VideoDDL == <<"create if not exists">>
\* faulty variant: the table is not dropped
ChannelDDLNoDrop == <<"create if not exists", "create if not exists", "msck repair">>
\* faulty variant: the table is created before it is dropped
ChannelDDLCreateFirst == <<"create if not exists", "drop if exists", "msck repair">>
\* lines 254-256: the DDL of the channel-stats flow, in order
ChannelDDL == <<"drop if exists", "create if not exists", "msck repair">>

\* Athena's catalog after a DDL statement on table t that succeeds
TablesAfter(ddl, t) ==
    IF ddl = "drop if exists" THEN tables \ {t} ELSE
    IF ddl = "create if not exists" THEN tables \cup {t} ELSE tables

\* the partitions registered for youtube_channel_stats after the statement:
\* a dropped table loses them, MSCK REPAIR TABLE registers every
\* creation_date= prefix found under the table's location
PartitionsAfter(ddl, t) ==
    IF t # CHANNEL THEN partitions ELSE
    IF ddl = "drop if exists" THEN {} ELSE
    IF ddl = "msck repair" THEN {o.key.date : o \in ObjectsOf(CHANNEL)} ELSE partitions

\* MSCK REPAIR TABLE needs the table; the other statements always apply
CanApply(ddl, t) == ddl = "msck repair" => table_exists(t)

Raise(e) ==
    /\ pc' = AfterRaise(pc)
    /\ err' = e
    /\ fatalAt' = pc

\* one entry of the call history: the id asked for, the developer key the client
\* was built with, and the answer (items, or the exception raised)
Call(id, ok, items, error) ==
    [id |-> id, key |-> youtube, ok |-> ok, items |-> items, error |-> error]
Stmt(table, ddl, ok) == [table |-> table, ddl |-> ddl, ok |-> ok]

\* the state before the first run of main()
InitProgram ==
    /\ validated_url = <<OtherRow>>
    /\ storage = {}
    /\ tables = {}
    /\ partitions = {}
    /\ today = 1
    /\ runs = 0
    /\ pc = "idle"
    /\ work = <<>>
    /\ num_videos = 0
    /\ num_channels = 0
    /\ current_key = 0
    /\ youtube = 0
    /\ batch = <<>>
    /\ calls = <<>>
    /\ fetched = <<>>
    /\ uploads = <<>>
    /\ stmts = <<>>
    /\ err = NoError
    /\ fatalAt = "idle"
    /\ first_key_403 = FALSE
    /\ tables_at_start = {}

\* no entity has been answered yet
NoItem == [kind |-> "none"]

Init ==
    /\ InitProgram
    /\ item = NoItem
    /\ line = NoItem

\* the position of a row in the canonical order of the bag
RowRank(r) == IF r.host = YoutubeHost THEN r.v ELSE 0

InsertRow(t, r) ==
    LET before == SelectSeq(t, LAMBDA x : RowRank(x) <= RowRank(r))
        after == SelectSeq(t, LAMBDA x : RowRank(x) > RowRank(r))
    IN  before \o <<r>> \o after

\* the crawl stage (not part of this program) fills the table before the
\* first run; the later runs of the model see the same upstream data
Crawl ==
    /\ pc = "idle"
    /\ runs = 0
    /\ Len(validated_url) < 1 + MaxUrls
    /\ \E r \in YoutubeRows : validated_url' = InsertRow(validated_url, r)
    /\ UNCHANGED <<item, line, first_key_403, tables_at_start, storage, tables,
                   partitions, today, runs, pc, work, num_videos, num_channels,
                   current_key, youtube, batch, calls, fetched, uploads, stmts,
                   err, fatalAt>>

\* the UTC date changes between two runs (the flows read it when they name
\* the object to upload, lines 183 and 248; the first upload is on day 1)
Midnight ==
    /\ today < MaxDate
    /\ pc = "idle"
    /\ storage # {}
    /\ runs < MaxRuns
    /\ today' = today + 1
    /\ UNCHANGED <<item, line, first_key_403, tables_at_start, validated_url,
                   storage, tables, partitions, runs, pc, work, num_videos,
                   num_channels, current_key, youtube, batch, calls, fetched,
                   uploads, stmts, err, fatalAt>>

\* lines 261-275: main() up to the call of collect_video_snippets
StartRun ==
    /\ pc = "idle"
    /\ runs < MaxRuns
    /\ runs' = runs + 1
    /\ pc' = "v_resolve"
    /\ tables_at_start' = tables
    /\ UNCHANGED <<item, line, first_key_403, validated_url, storage, tables,
                   partitions, today, work, num_videos, num_channels, current_key,
                   youtube, batch, calls, fetched, uploads, stmts, err, fatalAt>>

\* the calls made so far by the iteration that is running: none when the
\* latest call answered (the loop went on to the next row)
ThisIteration ==
    IF calls # <<>> /\ calls[Len(calls)].ok THEN <<>> ELSE calls

\* whether the first key has answered with status 403, after the client built
\* with key youtube got the answer e
FirstKey403(e) == first_key_403 \/ (e.status = 403 /\ youtube = 0)

\* lines 157-173 and 223-239: the except clause of the fetch loop; t is what
\* the flow's test of the pool gives for the advanced index
OnHttpError(e, t) ==
    IF IsQuotaError(e)
    THEN LET k == NextKey(current_key)
         IN  /\ current_key' = k
             /\ IF t.error # NoError
                THEN Raise(t.error) /\ UNCHANGED youtube
                ELSE IF t.value
                     THEN Raise(e) /\ UNCHANGED youtube
                     ELSE /\ youtube' = BuildClient(k)
                          /\ UNCHANGED <<pc, err, fatalAt>>
    ELSE Raise(e) /\ UNCHANGED <<current_key, youtube>>

\* lines 123-150: the work-set queries, the first client, entry of the loop
VideoResolve ==
    /\ pc = "v_resolve"
    /\ LET w == VideoQuery
       IN  /\ work' = w
           /\ num_videos' = IF Len(w) = 0 THEN 0 ELSE 1
           /\ pc' = IF Len(w) = 0 THEN "v_upload" ELSE "v_fetch"
    /\ current_key' = InitialKey(current_key)
    /\ youtube' = BuildClient(InitialKey(current_key))
    /\ batch' = <<>>
    /\ calls' = <<>>
    /\ fetched' = <<>>
    /\ UNCHANGED <<item, line, first_key_403, tables_at_start, validated_url,
                   today, runs, storage, tables, partitions, num_channels,
                   uploads, stmts, err, fatalAt>>

\* lines 126-133: a query of Athena fails
VideoResolveFails ==
    /\ pc = "v_resolve"
    /\ Raise(AthenaError)
    /\ UNCHANGED <<item, line, first_key_403, tables_at_start, validated_url,
                   today, runs, storage, tables, partitions, work, num_videos,
                   num_channels, current_key, youtube, batch, calls, fetched,
                   uploads, stmts>>

\* lines 153-156, 174-177, 147-150: the call answers; its items are written and
\* the loop goes to the next row of the csv, or ends
VideoCallOk ==
    /\ pc = "v_fetch"
    /\ \E items \in VideoResponses(work[num_videos]) :
          /\ calls' = Append(ThisIteration, Call(work[num_videos], TRUE, items, NoError))
          /\ fetched' = Append(fetched, work[num_videos])
          /\ batch' = batch \o VideoRecords(items)
    /\ IF num_videos < Len(work)
       THEN num_videos' = num_videos + 1 /\ pc' = pc
       ELSE num_videos' = num_videos /\ pc' = "v_upload"
    /\ UNCHANGED <<item, line, first_key_403, tables_at_start, validated_url,
                   today, runs, storage, tables, partitions, work, num_channels,
                   current_key, youtube, uploads, stmts, err, fatalAt>>

\* lines 153-173: the call raises HttpError
VideoCallError ==
    /\ pc = "v_fetch"
    /\ \E e \in HttpErrors :
          /\ calls' = Append(ThisIteration, Call(work[num_videos], FALSE, <<>>, e))
          /\ OnHttpError(e, VideoPoolTest(NextKey(current_key)))
          /\ first_key_403' = FirstKey403(e)
    /\ UNCHANGED <<item, line, tables_at_start, validated_url, today, runs,
                   storage, tables, partitions, work, num_videos, num_channels,
                   batch, fetched, uploads, stmts>>

\* lines 179-185: compress and upload
VideoUpload ==
    /\ pc = "v_upload"
    /\ LET key == VideoKey(today, num_videos)
       IN  /\ storage' = PutObject(storage, key, batch)
           /\ uploads' = Append(uploads, key)
    /\ pc' = "v_schema"
    /\ calls' = <<>>
    /\ UNCHANGED <<item, line, first_key_403, tables_at_start, validated_url,
                   today, runs, tables, partitions, work, num_videos,
                   num_channels, current_key, youtube, batch, fetched, stmts, err,
                   fatalAt>>

VideoUploadFails ==
    /\ pc = "v_upload"
    /\ Raise(UploadError)
    /\ calls' = <<>>
    /\ UNCHANGED <<item, line, first_key_403, tables_at_start, validated_url,
                   today, runs, storage, tables, partitions, work, num_videos,
                   num_channels, current_key, youtube, batch, fetched, uploads,
                   stmts>>

\* line 188, then the return to main (the locals of the flow are gone)
VideoSchema ==
    /\ pc = "v_schema"
    /\ CanApply(VideoDDL[1], VIDEO)
    /\ stmts' = Append(stmts, Stmt(VIDEO, VideoDDL[1], TRUE))
    /\ tables' = TablesAfter(VideoDDL[1], VIDEO)
    /\ partitions' = PartitionsAfter(VideoDDL[1], VIDEO)
    /\ pc' = "c_resolve"
    /\ work' = <<>>
    /\ num_videos' = 0
    /\ batch' = <<>>
    /\ fetched' = <<>>
    /\ UNCHANGED <<item, line, first_key_403, tables_at_start, validated_url,
                   today, runs, storage, num_channels, current_key, youtube,
                   calls, uploads, err, fatalAt>>

VideoSchemaFails ==
    /\ pc = "v_schema"
    /\ stmts' = Append(stmts, Stmt(VIDEO, VideoDDL[1], FALSE))
    /\ Raise(AthenaError)
    /\ UNCHANGED <<item, line, first_key_403, tables_at_start, validated_url,
                   today, runs, storage, tables, partitions, work, num_videos,
                   num_channels, current_key, youtube, batch, calls, fetched,
                   uploads>>

\* lines 190-216: the work-set query, the first client, entry of the loop
ChannelResolve ==
    /\ pc = "c_resolve"
    /\ table_exists(VIDEO)
    /\ LET w == ChannelQuery
       IN  /\ work' = w
           /\ num_channels' = IF Len(w) = 0 THEN 0 ELSE 1
           /\ pc' = IF Len(w) = 0 THEN "c_upload" ELSE "c_fetch"
    /\ current_key' = InitialKey(current_key)
    /\ youtube' = BuildClient(InitialKey(current_key))
    /\ batch' = <<>>
    /\ calls' = <<>>
    /\ fetched' = <<>>
    /\ UNCHANGED <<item, line, first_key_403, tables_at_start, validated_url,
                   today, runs, storage, tables, partitions, num_videos, uploads,
                   stmts, err, fatalAt>>

\* lines 194-199: a query of Athena fails
ChannelResolveFails ==
    /\ pc = "c_resolve"
    /\ Raise(AthenaError)
    /\ UNCHANGED <<item, line, first_key_403, tables_at_start, validated_url,
                   today, runs, storage, tables, partitions, work, num_videos,
                   num_channels, current_key, youtube, batch, calls, fetched,
                   uploads, stmts>>

\* lines 219-222, 240-242, 213-216
ChannelCallOk ==
    /\ pc = "c_fetch"
    /\ \E items \in ChannelResponses(work[num_channels]) :
          /\ calls' = Append(ThisIteration, Call(work[num_channels], TRUE, items, NoError))
          /\ fetched' = Append(fetched, work[num_channels])
          /\ batch' = batch \o ChannelRecords(items)
    /\ IF num_channels < Len(work)
       THEN num_channels' = num_channels + 1 /\ pc' = pc
       ELSE num_channels' = num_channels /\ pc' = "c_upload"
    /\ UNCHANGED <<item, line, first_key_403, tables_at_start, validated_url,
                   today, runs, storage, tables, partitions, work, num_videos,
                   current_key, youtube, uploads, stmts, err, fatalAt>>

\* lines 219-239
ChannelCallError ==
    /\ pc = "c_fetch"
    /\ \E e \in HttpErrors :
          /\ calls' = Append(ThisIteration, Call(work[num_channels], FALSE, <<>>, e))
          /\ OnHttpError(e, ChannelPoolTest(NextKey(current_key)))
    /\ UNCHANGED <<item, line, first_key_403, tables_at_start, validated_url,
                   today, runs, storage, tables, partitions, work, num_videos,
                   num_channels, batch, fetched, uploads, stmts>>

\* lines 244-251
ChannelUpload ==
    /\ pc = "c_upload"
    /\ LET key == ChannelKey(today, num_channels)
       IN  /\ storage' = PutObject(storage, key, batch)
           /\ uploads' = Append(uploads, key)
    /\ pc' = "c_drop"
    /\ calls' = <<>>
    /\ UNCHANGED <<item, line, first_key_403, tables_at_start, validated_url,
                   today, runs, tables, partitions, work, num_videos,
                   num_channels, current_key, youtube, batch, fetched, stmts, err,
                   fatalAt>>

ChannelUploadFails ==
    /\ pc = "c_upload"
    /\ Raise(UploadError)
    /\ calls' = <<>>
    /\ UNCHANGED <<item, line, first_key_403, tables_at_start, validated_url,
                   today, runs, storage, tables, partitions, work, num_videos,
                   num_channels, current_key, youtube, batch, fetched, uploads,
                   stmts>>

\* one DDL statement of lines 254-256 fails
ChannelDDLFails(at, i) ==
    /\ pc = at
    /\ stmts' = Append(stmts, Stmt(CHANNEL, ChannelDDL[i], FALSE))
    /\ Raise(AthenaError)
    /\ UNCHANGED <<item, line, first_key_403, tables_at_start, validated_url,
                   today, runs, storage, tables, partitions, work, num_videos,
                   num_channels, current_key, youtube, batch, calls, fetched,
                   uploads>>

\* one DDL statement of lines 254-256 succeeds
ChannelDDLStep(at, i, next) ==
    /\ pc = at
    /\ CanApply(ChannelDDL[i], CHANNEL)
    /\ stmts' = Append(stmts, Stmt(CHANNEL, ChannelDDL[i], TRUE))
    /\ tables' = TablesAfter(ChannelDDL[i], CHANNEL)
    /\ partitions' = PartitionsAfter(ChannelDDL[i], CHANNEL)
    /\ pc' = next
    /\ UNCHANGED <<item, line, first_key_403, tables_at_start, validated_url,
                   today, runs, storage, work, num_videos, num_channels,
                   current_key, youtube, batch, calls, fetched, uploads, err,
                   fatalAt>>

\* line 254: DROP TABLE IF EXISTS youtube_channel_stats
ChannelDrop == ChannelDDLStep("c_drop", 1, "c_create")
ChannelDropFails == ChannelDDLFails("c_drop", 1)

\* line 255: CREATE_CHANNEL_STATS_JSON (create external table if not exists)
ChannelCreate == ChannelDDLStep("c_create", 2, "c_repair")
ChannelCreateFails == ChannelDDLFails("c_create", 2)

\* line 256: MSCK REPAIR TABLE youtube_channel_stats, then the return to main
ChannelRepair == ChannelDDLStep("c_repair", 3, "done")
ChannelRepairFails == ChannelDDLFails("c_repair", 3)

\* lines 277-278 and the end of the process: the log is saved, every local is gone
Exit ==
    /\ pc \in {"done", "fatal"}
    /\ pc' = "idle"
    /\ work' = <<>>
    /\ num_videos' = 0
    /\ num_channels' = 0
    /\ current_key' = 0
    /\ youtube' = 0
    /\ batch' = <<>>
    /\ calls' = <<>>
    /\ fetched' = <<>>
    /\ uploads' = <<>>
    /\ stmts' = <<>>
    /\ err' = NoError
    /\ fatalAt' = "idle"
    /\ first_key_403' = FALSE
    /\ tables_at_start' = {}
    /\ UNCHANGED <<item, line, validated_url, today, runs, storage, tables,
                   partitions>>

Next ==
    \/ Crawl
    \/ Midnight
    \/ StartRun
    \/ VideoResolve
    \/ VideoResolveFails
    \/ VideoCallOk
    \/ VideoCallError
    \/ VideoUpload
    \/ VideoUploadFails
    \/ VideoSchema
    \/ VideoSchemaFails
    \/ ChannelResolve
    \/ ChannelResolveFails
    \/ ChannelCallOk
    \/ ChannelCallError
    \/ ChannelUpload
    \/ ChannelUploadFails
    \/ ChannelDrop
    \/ ChannelDropFails
    \/ ChannelCreate
    \/ ChannelCreateFails
    \/ ChannelRepair
    \/ ChannelRepairFails
    \/ Exit

Spec == Init /\ [][Next]_vars

\* ------------------------------------------------- the lines of the batch
\* a str is a sequence of characters; the characters a publishedAt may hold:
\* a digit, a punctuation mark, the separator T and the zone letter Z
Chars == {"1", ":", "T", "Z"}
Strings == UNION {[1..n -> Chars] : n \in 0..MaxLen}

\* str.rstrip(c): every trailing c is removed
RECURSIVE rstrip(_, _)
rstrip(s, c) ==
    IF s # <<>> /\ s[Len(s)] = c THEN rstrip(SubSeq(s, 1, Len(s) - 1), c) ELSE s

\* faulty variant: nothing is replaced
replaceNone(s, old, new) == s

\* str.replace(old, new) for one-character old and new: every old becomes new
replace(s, old, new) == [i \in 1..Len(s) |-> IF s[i] = old THEN new ELSE s[i]]

\* the entities videos().list(part="snippet") and channels().list(part="statistics")
\* may answer with
VideoEntities ==
    [kind : {"youtube#video"}, id : {1}, etag : {<<"T", "Z">>},
     snippet : [publishedAt : Strings, channelId : {1}]]
ChannelEntities ==
    [kind : {"youtube#channel"}, id : {1}, etag : Strings,
     statistics : [viewCount : {1}]]

\* item['retrieved_at'] = ...: the dict with the key added (or replaced)
WithRetrievedAt(it, now) ==
    [f \in DOMAIN it \cup {"retrieved_at"} |->
        IF f = "retrieved_at" THEN now ELSE it[f]]

\* lines 175-176: the dict json.dumps is given in the video-snippet flow
VideoLine(it, now) ==
    WithRetrievedAt(
        [it EXCEPT !.snippet.publishedAt = replace(rstrip(@, "Z"), "T", " ")], now)

\* line 241: the dict json.dumps is given in the channel-stats flow
ChannelLine(it, now) == WithRetrievedAt(it, now)

program == <<validated_url, storage, tables, partitions, today, runs, pc, work,
             num_videos, num_channels, current_key, youtube, batch, calls,
             fetched, uploads, stmts, err, fatalAt, first_key_403, tables_at_start>>

\* the API has answered with one entity, of any content
NormInit ==
    /\ InitProgram
    /\ item \in VideoEntities \cup ChannelEntities
    /\ line = NoItem

\* lines 174-177: the body of the for loop, for one entity
WriteVideoLine ==
    /\ item.kind = "youtube#video"
    /\ line = NoItem
    /\ line' = VideoLine(item, today)
    /\ UNCHANGED <<item, program>>

\* lines 240-242
WriteChannelLine ==
    /\ item.kind = "youtube#channel"
    /\ line = NoItem
    /\ line' = ChannelLine(item, today)
    /\ UNCHANGED <<item, program>>

NormNext == WriteVideoLine \/ WriteChannelLine

NormSpec == NormInit /\ [][NormNext]_vars

\* the steps of a running process: main() is one thread that goes on as long
\* as every call it makes returns
RunStep ==
    \/ VideoResolve \/ VideoResolveFails \/ VideoCallOk \/ VideoCallError
    \/ VideoUpload \/ VideoUploadFails \/ VideoSchema \/ VideoSchemaFails
    \/ ChannelResolve \/ ChannelResolveFails \/ ChannelCallOk \/ ChannelCallError
    \/ ChannelUpload \/ ChannelUploadFails \/ ChannelDrop \/ ChannelDropFails
    \/ ChannelCreate \/ ChannelCreateFails \/ ChannelRepair \/ ChannelRepairFails

\* the runs of a process whose calls all return
LiveSpec == Init /\ [][Next]_vars /\ WF_vars(RunStep)

\* ------------------------------------------------------------------ claims
VideoPcs == {"v_fetch", "v_upload", "v_schema"}
ChannelPcs == {"c_fetch", "c_upload", "c_drop", "c_create", "c_repair", "done"}
InVideoFlow == pc \in VideoPcs \/ (pc = "fatal" /\ fatalAt \in VideoPcs)
InChannelFlow == pc \in ChannelPcs \/ (pc = "fatal" /\ fatalAt \in ChannelPcs)

LastCall == calls[Len(calls)]
\* the position in work of the identifier the calls of the history are for
CallsPosition == IF LastCall.ok THEN Len(fetched) ELSE Len(fetched) + 1
\* the calls before the latest all raised HttpError with status 403
Only403Before ==
    \A i \in 1..(Len(calls) - 1) : ~calls[i].ok /\ calls[i].error.status = 403

\* C1: in the video-snippet flow the calls made for one identifier are all for that
\* identifier (the next one of the work set, none skipped), every call but the
\* latest has failed, the developer keys used are consecutive (none skipped, none
\* used twice), starting at key 0 for the first identifier; so a call that succeeds
\* after K quota failures of keys 0..K-1 is made with key K, after K rotations.
C1_VideoRotation ==
    (InVideoFlow /\ calls # <<>>) =>
        /\ \A i \in 1..Len(calls) : calls[i].id = work[CallsPosition]
        /\ \A i \in 1..(Len(calls) - 1) : ~calls[i].ok
        /\ \A i \in 2..Len(calls) : calls[i].key = calls[i - 1].key + 1
        /\ CallsPosition = 1 => calls[1].key = 0
        /\ (LastCall.ok /\ CallsPosition = 1 /\ Only403Before) =>
               /\ LastCall.key = Len(calls) - 1
               /\ youtube = Len(calls) - 1
               /\ current_key = Len(calls) - 1
               /\ Len(calls) - 1 < NumCreds

\* C1 witness: key 0 answered 403 to the first call, the call with key 1 answered
C1_Witness ==
    /\ pc \in VideoPcs
    /\ Len(calls) >= 2
    /\ LastCall.ok
    /\ Only403Before
    /\ CallsPosition = 1
    /\ LastCall.key = Len(calls) - 1

\* C2: in the channel-stats flow, a quota (403) failure makes the flow Fatal only
\* when it was the answer to the last credential of the pool.
C2_ChannelRotation ==
    (pc = "fatal" /\ fatalAt = "c_fetch" /\ calls # <<>> /\ ~LastCall.ok
        /\ LastCall.error.status = 403) =>
        LastCall.key = NumCreds - 1

\* C3: the count in the key of every uploaded object is the number of records
\* written to that object.
C3_KeyCountIsBatchSize == \A o \in storage : o.key.count = Len(o.body)

\* C4: a step in which the API answers with an empty entity list writes no record
\* (the batch keeps its records), raises nothing, and takes the loop to the next
\* identifier or, after the last one, to the upload.
C4_EmptyResponse ==
    [][(calls' # calls /\ calls' # <<>> /\ calls'[Len(calls')].ok
            /\ calls'[Len(calls')].items = <<>>) =>
        /\ batch' = batch
        /\ err' = NoError
        /\ fetched' = Append(fetched, work[Len(fetched) + 1])
        /\ IF Len(fetched') < Len(work)
           THEN \/ pc' = "v_fetch" /\ pc = "v_fetch" /\ num_videos' = Len(fetched') + 1
                \/ pc' = "c_fetch" /\ pc = "c_fetch" /\ num_channels' = Len(fetched') + 1
           ELSE \/ pc' = "v_upload" /\ pc = "v_fetch"
                \/ pc' = "c_upload" /\ pc = "c_fetch"]_vars

\* C4 witness: the first identifier got an empty answer, the second one an entity,
\* and the batch of one record has been uploaded
C4_Witness ==
    /\ pc = "v_schema"
    /\ Len(fetched) = 2
    /\ Len(batch) = 1
    /\ batch[1].id = fetched[2]
    /\ uploads # <<>>

\* the identifiers the upstream crawl data references
UpstreamVideoIds == {r.v : r \in {x \in Range(validated_url) : x.host = YoutubeHost}}
NoDuplicates(s) == \A i, j \in 1..Len(s) : s[i] = s[j] => i = j

\* C5: while the video-snippet flow fetches (nothing uploaded yet), its work set is
\* the upstream identifiers less the ids of table youtube_video_snippet if the
\* table exists, all the upstream identifiers if not, each identifier once.
C5_VideoWorkSet ==
    pc \in {"v_fetch", "v_upload"} =>
        /\ Range(work) = IF VIDEO \in tables
                         THEN UpstreamVideoIds \ VideoTableIds
                         ELSE UpstreamVideoIds
        /\ NoDuplicates(work)

\* C5 witness: the table exists and holds some of the upstream ids, others are left
C5_Witness ==
    /\ pc = "v_fetch"
    /\ VIDEO \in tables
    /\ UpstreamVideoIds \cap VideoTableIds # {}
    /\ work # <<>>

\* the channel ids table youtube_video_snippet references
UpstreamChannelIds == {r.channelId : r \in VideoTableRows}

\* C6 as claimed: while the channel-stats flow fetches, its work set is the upstream
\* channel ids less the ids of table youtube_channel_stats if that table exists.
C6_ChannelWorkSetExcludes ==
    pc \in {"c_fetch", "c_upload"} =>
        Range(work) = IF CHANNEL \in tables
                      THEN UpstreamChannelIds \ ChannelTableIds
                      ELSE UpstreamChannelIds

\* C6 amended: while the channel-stats flow fetches, its work set is every channel
\* id table youtube_video_snippet references, each once, in ascending order,
\* whether table youtube_channel_stats exists or not and whatever it holds.
C6_ChannelWorkSetAll ==
    pc \in {"c_fetch", "c_upload"} =>
        /\ Range(work) = UpstreamChannelIds
        /\ \A i, j \in 1..Len(work) : i < j => work[i] < work[j]

\* C6 witness: the flow fetches a channel whose statistics an earlier run committed
C6_Witness ==
    /\ pc = "c_fetch"
    /\ CHANNEL \in tables
    /\ work[num_channels] \in ChannelTableIds

\* C7: a call that raised an HttpError of a status other than 403 is the last call
\* of the run: the run is Fatal with that very error, the key index is the one the
\* call was made with (no rotation), and nothing is uploaded or registered after.
C7_OtherErrorFatal ==
    \A i \in 1..Len(calls) :
        (~calls[i].ok /\ calls[i].error.status # 403) =>
            /\ i = Len(calls)
            /\ pc = "fatal"
            /\ err = calls[i].error
            /\ current_key = calls[i].key
            /\ youtube = calls[i].key

\* C8: when the fetch of the first identifier of a flow ends the flow after nothing
\* but quota (403) answers, N calls were made, one with each key 0..N-1, and the
\* error leaving the flow is the HttpError of the last call; nothing is uploaded.
C8_PoolExhausted ==
    (pc = "fatal" /\ fatalAt \in {"v_fetch", "c_fetch"} /\ fetched = <<>>
        /\ \A i \in 1..Len(calls) : ~calls[i].ok /\ calls[i].error.status = 403) =>
        /\ Len(calls) = NumCreds
        /\ \A i \in 1..Len(calls) : calls[i].key = i - 1
        /\ err = LastCall.error
        /\ fatalAt = "v_fetch" => uploads = <<>>
        /\ fatalAt = "c_fetch" => Len(uploads) = 1 /\ uploads[1].flow = VIDEO

\* the uploads and DDL statements of the run, by flow
UploadsOf(flow) == SelectSeq(uploads, LAMBDA k : k.flow = flow)
StmtsOf(table) == SelectSeq(stmts, LAMBDA x : x.table = table)
DDLOf(table) == [i \in 1..Len(StmtsOf(table)) |-> StmtsOf(table)[i].ddl]
IsPrefix(s, t) == Len(s) <= Len(t) /\ \A i \in 1..Len(s) : s[i] = t[i]

\* C9: an upload happens only when every identifier of the work set has got an
\* answer in this run (and no exception is pending), and it stores the whole
\* batch; once an exception has left a flow the run is Fatal, and from Fatal the
\* process only ends: the bucket and the catalog stay as they are and the next
\* flow does not start.
C9_NoPartialProgress ==
    [][/\ uploads' # uploads /\ uploads' # <<>> =>
           /\ fetched = work
           /\ err = NoError
           /\ pc \in {"v_upload", "c_upload"}
           /\ [key |-> uploads'[Len(uploads')], body |-> batch] \in storage'
       /\ err' # NoError => pc' = "fatal"
       /\ pc = "fatal" =>
           /\ pc' = "idle"
           /\ UNCHANGED <<storage, tables, partitions>>]_vars

\* C9 witness: the video flow went Fatal after a first identifier had been
\* answered; nothing has been uploaded
C9_Witness ==
    /\ pc = "fatal"
    /\ fatalAt = "v_fetch"
    /\ fetched # <<>>
    /\ Len(fetched) < Len(work)
    /\ uploads = <<>>
    /\ storage = {}

\* C10: the video-snippet flow issues at most one statement, create-if-absent
\* (never a drop), and only after its upload; the channel-stats flow issues
\* drop-if-exists, create, partition repair in this order, each at most once, each
\* after the one before has succeeded and all after its upload; a run that is Done
\* has issued all four, each once.
C10_SchemaAfterUpload ==
    /\ IsPrefix(DDLOf(VIDEO), <<"create if not exists">>)
    /\ IsPrefix(DDLOf(CHANNEL), <<"drop if exists", "create if not exists", "msck repair">>)
    /\ StmtsOf(VIDEO) # <<>> => Len(UploadsOf(VIDEO)) = 1
    /\ StmtsOf(CHANNEL) # <<>> => Len(UploadsOf(CHANNEL)) = 1 /\ StmtsOf(VIDEO) # <<>>
    /\ \A i \in 1..(Len(stmts) - 1) : stmts[i].ok
    /\ pc = "done" => /\ Len(stmts) = 4
                      /\ stmts[4].ok
                      /\ VIDEO \in tables /\ CHANNEL \in tables

\* C10 witness: a run that is Done
C10_Witness ==
    /\ pc = "done"
    /\ Len(stmts) = 4
    /\ Len(uploads) = 2

\* C11: a DDL statement is issued for a flow only when the object that flow
\* uploaded in this run is in the bucket; when a statement fails the run is Fatal
\* with the error of Athena and the batch of the flow is still the body of the
\* object it uploaded (no rollback).
C11_SchemaFailureKeepsBatch ==
    /\ \A i \in 1..Len(stmts) :
           \E k \in Range(uploads) :
               k.flow = stmts[i].table /\ \E o \in storage : o.key = k
    /\ (stmts # <<>> /\ ~stmts[Len(stmts)].ok) =>
           /\ pc = "fatal"
           /\ err = AthenaError
           /\ [key |-> uploads[Len(uploads)], body |-> batch] \in storage

\* C11 witness: the create statement of the video-snippet flow failed; the batch
\* with a record is in the bucket and the table is not in the catalog
C11_Witness ==
    /\ pc = "fatal"
    /\ fatalAt = "v_schema"
    /\ batch # <<>>
    /\ [key |-> VideoKey(today, num_videos), body |-> batch] \in storage
    /\ VIDEO \notin tables

\* C12: a step in which the upload of a flow fails makes the run Fatal with the
\* upload's error and leaves the bucket, the catalog and the statements as they
\* are; the flow has issued no statement; the work set of the failed flow is what
\* its query gives over the tables the failure leaves untouched. Until the
\* video-snippet flow of the next run resolves, the upstream table, the bucket
\* and the catalog stay as they are, and that flow resolves to what its query
\* gives: the same work set.
C12_UploadFailure ==
    [][/\ (pc \in {"v_upload", "c_upload"} /\ uploads' = uploads /\ pc' # pc) =>
           /\ pc' = "fatal"
           /\ err' = UploadError
           /\ UNCHANGED <<storage, tables, partitions, stmts, work>>
           /\ \A i \in 1..Len(stmts) :
                  stmts[i].table # (IF pc = "v_upload" THEN VIDEO ELSE CHANNEL)
           /\ work = IF pc = "v_upload" THEN VideoQuery ELSE ChannelQuery
       /\ (pc \in {"fatal", "idle"} /\ runs > 0) =>
           UNCHANGED <<validated_url, storage, tables, partitions>>
       /\ (pc = "v_resolve" /\ pc' # "fatal") => work' = VideoQuery']_vars

\* C12 witness: the upload of the video-snippet flow failed with a record in the
\* batch; the bucket is empty and no statement was issued
C12_Witness ==
    /\ pc = "fatal"
    /\ fatalAt = "v_upload"
    /\ err = UploadError
    /\ batch # <<>>
    /\ storage = {}
    /\ stmts = <<>>

\* C13: the loop makes at most N calls for one identifier (N the size of the
\* pool); the loop goes to the next identifier, or on to the upload, only in a
\* step in which the call for the identifier at hand answered; a flow that
\* fetches gets to its upload or the run gets Fatal, and a run that has started
\* gets Done or Fatal.
C13_BoundedLoop ==
    /\ [](Len(calls) <= NumCreds)
    /\ [][(/\ pc \in {"v_fetch", "c_fetch"}
           /\ \/ num_videos' # num_videos
              \/ num_channels' # num_channels
              \/ pc' \in {"v_upload", "c_upload"}) =>
              /\ calls' # <<>>
              /\ calls'[Len(calls')].ok
              /\ calls'[Len(calls')].id =
                     work[IF pc = "v_fetch" THEN num_videos ELSE num_channels]]_vars
    /\ (pc \in {"v_fetch", "c_fetch"}) ~> (pc \in {"v_upload", "c_upload", "fatal"})
    /\ (pc = "v_resolve") ~> (pc \in {"done", "fatal"})

\* C13 witness: the last identifier of the video-snippet flow was answered by the
\* last key of the pool, after every key before it had failed
C13_Witness ==
    /\ pc = "v_upload"
    /\ fetched = work
    /\ Len(calls) = NumCreds
    /\ LastCall.ok
    /\ LastCall.key = NumCreds - 1

\* a value of the form YYYY-MM-DDTHH:MM:SSZ: a date and a time of digits and
\* punctuation, one T between them, one Z at the end
IsTimestamp(s) ==
    /\ Len(s) >= 4
    /\ s[Len(s)] = "Z"
    /\ \E t \in 2..(Len(s) - 2) :
           /\ s[t] = "T"
           /\ \A i \in 1..(Len(s) - 1) : i # t => s[i] \notin {"T", "Z"}

\* C14: the line the video-snippet flow writes for an entity whose publishedAt has
\* the form YYYY-MM-DDTHH:MM:SSZ holds the value one character shorter, without
\* the Z, with a space where the T was and every other character as it was; the
\* other fields of the entity are as the API gave them and retrieved_at is added.
\* The line the channel-stats flow writes is the entity as the API gave it, with
\* retrieved_at added.
C14_Normalization ==
    line # NoItem =>
        /\ DOMAIN line = DOMAIN item \cup {"retrieved_at"}
        /\ line.retrieved_at = today
        /\ item.kind = "youtube#channel" =>
               \A f \in DOMAIN item : line[f] = item[f]
        /\ item.kind = "youtube#video" =>
               /\ \A f \in DOMAIN item \ {"snippet"} : line[f] = item[f]
               /\ line.snippet.channelId = item.snippet.channelId
               /\ LET in == item.snippet.publishedAt
                      out == line.snippet.publishedAt
                  IN  IsTimestamp(in) =>
                          /\ Len(out) = Len(in) - 1
                          /\ \A i \in 1..Len(out) :
                                 out[i] = IF in[i] = "T" THEN " " ELSE in[i]

\* C14 witness: a line was written for a video whose publishedAt has the form
C14_Witness ==
    /\ line # NoItem
    /\ item.kind = "youtube#video"
    /\ IsTimestamp(item.snippet.publishedAt)
    /\ " " \in Range(line.snippet.publishedAt)
    /\ "Z" \notin Range(line.snippet.publishedAt)

\* C15: a flow starts with key index 0; in a step of the fetch loop the index
\* never decreases, it increases by exactly one when the call of the step failed
\* with status 403 and stays as it is in every other step; every call is made
\* with the key at the index, so never with a key that has answered 403 before.
C15_KeyIndex ==
    [][/\ (pc \in {"v_resolve", "c_resolve"} /\ pc' # "fatal") => current_key' = 0
       /\ pc \in {"v_fetch", "c_fetch"} =>
           /\ current_key' >= current_key
           /\ current_key' =
                  IF ~calls'[Len(calls')].ok /\ calls'[Len(calls')].error.status = 403
                  THEN current_key + 1
                  ELSE current_key
           /\ calls'[Len(calls')].key = current_key
           /\ \A i \in 1..(Len(calls') - 1) :
                  calls'[i].key < calls'[Len(calls')].key]_vars

\* C16: the calls for the first identifier of a flow start with key 0: the first
\* call of each flow is made with the first developer key, also when that key
\* has answered 403 earlier in the run; a flow that has made no call yet has
\* index 0 and a client built with key 0.
C16_PointerReset ==
    /\ (pc \in {"v_fetch", "c_fetch"} /\ fetched = <<>> /\ calls = <<>>) =>
           current_key = 0 /\ youtube = 0
    /\ ((InVideoFlow \/ InChannelFlow) /\ calls # <<>> /\ CallsPosition = 1) =>
           calls[1].key = 0

\* C16 witness: key 0 answered 403 in the video-snippet flow, and the first call
\* of the channel-stats flow was made with key 0 and answered
C16_Witness ==
    /\ InChannelFlow
    /\ first_key_403
    /\ calls # <<>>
    /\ CallsPosition = 1
    /\ LastCall.ok
    /\ LastCall.key = 0

\* C17: the channel-stats flow resolves and runs only when the video-snippet flow
\* of the run has uploaded its batch and registered its table, and while the
\* video-snippet flow runs nothing of the channel-stats flow has happened; no
\* flow uploads twice; a run that is Done has made two uploads, the first of the
\* video-snippet flow and the second of the channel-stats flow.
C17_Sequential ==
    /\ (pc = "c_resolve" \/ InChannelFlow) =>
           /\ uploads # <<>>
           /\ uploads[1].flow = VIDEO
           /\ stmts # <<>>
           /\ stmts[1] = Stmt(VIDEO, "create if not exists", TRUE)
           /\ VIDEO \in tables
    /\ (pc = "v_resolve" \/ InVideoFlow) =>
           /\ UploadsOf(CHANNEL) = <<>>
           /\ StmtsOf(CHANNEL) = <<>>
    /\ Len(UploadsOf(VIDEO)) <= 1
    /\ Len(UploadsOf(CHANNEL)) <= 1
    /\ pc = "done" =>
           /\ Len(uploads) = 2
           /\ uploads[1].flow = VIDEO
           /\ uploads[2].flow = CHANNEL
           /\ \A k \in Range(uploads) : \E o \in storage : o.key = k

\* C17 witness: a run over empty work sets is Done: each flow has uploaded its
\* one (empty) batch
C17_Witness ==
    /\ pc = "done"
    /\ uploads = <<VideoKey(today, 0), ChannelKey(today, 0)>>

\* C18: the upload of the video-snippet flow does not bring into table
\* youtube_video_snippet an identifier of the work set that was absent from it
\* and got no entity; no other step changes the ids of the table; and the flow
\* resolves to a work set that holds every upstream identifier absent from the
\* table. So an identifier answered with zero entities is in the work set of
\* the next run again, and is asked for again before that run uploads.
C18_EmptyNotProcessed ==
    [][/\ (pc = "v_upload" /\ pc' = "v_schema") =>
           /\ fetched = work
           /\ \A v \in Range(work) :
                  (v \notin {r.id : r \in Range(batch)} /\ v \notin VideoTableIds) =>
                      v \notin VideoTableIds'
       /\ pc # "v_upload" => VideoTableIds' = VideoTableIds
       /\ (pc = "v_resolve" /\ pc' # "fatal") =>
           \A v \in UpstreamVideoIds : v \notin VideoTableIds => v \in Range(work')]_vars

\* C18 witness: the first run ended Done (both tables registered, a partition
\* repaired) over upstream data that has not changed since; the second run asks
\* again for an identifier that is still absent from the table
C18_Witness ==
    /\ runs = 2
    /\ pc = "v_fetch"
    /\ tables_at_start = {VIDEO, CHANNEL}
    /\ partitions # {}
    /\ work[num_videos] \in UpstreamVideoIds \ VideoTableIds
    /\ calls # <<>>
    /\ LastCall.id = work[num_videos]

\* the keys of the objects in the bucket
StorageKeys == {o.key : o \in storage}

\* C19: when the channel-stats flow is about to issue its create statement, table
\* youtube_channel_stats is not in the catalog; when that statement fails the run
\* is Fatal with the table not in the catalog and no partition registered,
\* whether the table existed when the run started or not, while the object the
\* flow uploaded is in the bucket; and no step removes a key from the bucket.
C19_TableAbsent ==
    [][/\ pc' = "c_create" => CHANNEL \notin tables'
       /\ (pc' = "fatal" /\ fatalAt' = "c_create") =>
           /\ CHANNEL \notin tables'
           /\ partitions' = {}
           /\ err' = AthenaError
           /\ uploads'[2] \in StorageKeys'
       /\ StorageKeys \subseteq StorageKeys']_vars

\* C19 witness: the table existed when the run started; the create statement
\* failed after the drop; the table is gone, and the bucket holds the batch of an
\* earlier day and the batch of this run
C19_Witness ==
    /\ pc = "fatal"
    /\ fatalAt = "c_create"
    /\ CHANNEL \in tables_at_start
    /\ CHANNEL \notin tables
    /\ uploads[2].date = today
    /\ \E o \in ObjectsOf(CHANNEL) : o.key.date < today
    /\ \E o \in ObjectsOf(CHANNEL) : o.key = uploads[2]

\* C20: the key a flow uploads to is made of the flow, the UTC date of the upload
\* and the count of the flow's loop, and of nothing else; after the upload the
\* bucket holds one object at that key, with the batch of this run as its body,
\* whatever was at the key before, and every object at another key is kept.
C20_KeyFunction ==
    [][/\ (uploads' # uploads /\ uploads' # <<>>) =>
           LET k == uploads'[Len(uploads')]
           IN  /\ k = IF pc = "v_upload"
                      THEN [flow |-> VIDEO, date |-> today, count |-> num_videos]
                      ELSE [flow |-> CHANNEL, date |-> today, count |-> num_channels]
               /\ [key |-> k, body |-> batch] \in storage'
               /\ \A o \in storage : o.key # k => o \in storage'
               /\ StorageKeys' = StorageKeys \cup {k}
       /\ \A o1, o2 \in storage' : o1.key = o2.key => o1 = o2]_vars

\* C20 witness: the first run uploaded an empty batch for all the upstream
\* identifiers and registered the table; the second run, on the same day, was
\* answered an entity and has uploaded to the same key: the one object of the
\* video-snippet flow is the batch of the second run
C20_Witness ==
    /\ runs = 2
    /\ today = 1
    /\ pc = "v_schema"
    /\ VIDEO \in tables_at_start
    /\ batch # <<>>
    /\ uploads[1].count = Cardinality(UpstreamVideoIds)
    /\ ObjectsOf(VIDEO) = {[key |-> uploads[1], body |-> batch]}

====
